---- MODULE Spec2Model ----
(***************************************************************************)
(* Model of pyp2rpm's metadata extraction:                                 *)
(*   src/pyp2rpm/metadata_extractors.py  (extractors and the two overlays) *)
(*   src/pyp2rpm/module_runners.py       (descriptor sandbox runners)      *)
(*   src/command/extract_dist.py         (the injected capture command)    *)
(*                                                                         *)
(* Python strings that the code takes apart (split, startswith, lower, in) *)
(* are sequences of one-character strings.  Python values whose type the   *)
(* code inspects are records [t |-> type name, v |-> payload].             *)
(***************************************************************************)
EXTENDS Integers, Sequences, FiniteSets, TLC

VARIABLES
    pc,            \* position of the one thread of control in Strategy A
    archive_tree,  \* members of the archive: top-level dir -> what it holds
    archive_open,  \* self.archive is inside its `with` bracket
    archive_reads, \* reads of the archive so far, each with archive_open then
    tempdirs,      \* temporary directories that exist on disk
    setup_py,      \* the descriptor path chosen by glob, or NoPath
    runs,          \* how many times the descriptor sandbox was run
    raw_dist,      \* the Distribution handed to the extract_dist command
    class_dist,    \* extract_dist.class_dist, the process-wide hand-off slot
    distribution,  \* self.distribution of the extractor
    cfg,           \* constructor arguments: venv flag, virtualenv import
    client,        \* the registry client passed to extract_data
    data,          \* PackageData.data of the record being built
    pre,           \* the record as it was when the current overlay began
    stages,        \* who wrote the record, in order, and what it wrote
    events,        \* failures that happened in collaborators
    exc,           \* exception in flight or raised to the caller
    release_data,  \* what client.release_data returned to the registry overlay
    doc_files,     \* separate_license_files: argument
    doc_split,     \* separate_license_files: result
    long_desc,     \* distribution.long_description given to description
    desc_out,      \* SetupPyMetadataExtractor.description result
    runner,        \* a ModuleRunner / ExternModuleRunner object
    proc,          \* the last subprocess of the runner: returncode, stdout
    cwd,           \* os.getcwd() of this process
    sys_argv,      \* sys.argv of this process
    sys_path,      \* sys.path of this process
    props          \* reads of the extractor's derived properties so far

vars == <<pc, archive_tree, archive_open, archive_reads, tempdirs, setup_py,
          runs, raw_dist, class_dist, distribution, cfg, client, data, pre, stages, events,
          exc, release_data, doc_files, doc_split, long_desc, desc_out, runner,
          proc, cwd, sys_argv, sys_path, props>>

pipeVars == <<pc, archive_tree, archive_open, archive_reads, tempdirs,
              setup_py, runs, raw_dist, class_dist, distribution, cfg, client, data, pre,
              stages, events, exc, release_data>>
docVars  == <<doc_files, doc_split>>
descVars == <<long_desc, desc_out>>
runVars  == <<runner, proc>>
sysVars  == <<cwd, sys_argv, sys_path>>
propVars == <<props>>

----------------------------------------------------------------------------
(* Python values *)

PyNone      == [t |-> "NoneType", v |-> <<>>]
Absent      == [t |-> "absent", v |-> <<>>]
PyStr(s)    == [t |-> "str", v |-> s]
PyList(l)   == [t |-> "list", v |-> l]
PyTuple(l)  == [t |-> "tuple", v |-> l]
PySet(S)    == [t |-> "set", v |-> S]
PyInt(n)    == [t |-> "int", v |-> n]
PyDict(d)   == [t |-> "dict", v |-> d]

\* a == b for values of the kinds above: values of different types differ
PyEq(a, b) == a.t = b.t /\ a.v = b.v

\* truth value of a Python value
PyTruthy(a) ==
    CASE a.t \in {"NoneType", "absent"} -> FALSE
      [] a.t \in {"str", "list", "tuple"} -> Len(a.v) > 0
      [] a.t = "set" -> a.v # {}
      [] a.t = "int" -> a.v # 0
      [] a.t = "dict" -> Len(a.v) > 0

----------------------------------------------------------------------------
(* strings as sequences of characters *)

startswith(s, p) == Len(s) >= Len(p) /\ SubSeq(s, 1, Len(p)) = p

\* s.find(c): the first index of character c in s, 0 when there is none
FindChar(s, c) ==
    IF \E i \in 1..Len(s) : s[i] = c
    THEN CHOOSE i \in 1..Len(s) : s[i] = c /\ \A j \in 1..(i-1) : s[j] # c
    ELSE 0

\* s.split(c): the pieces of s between the occurrences of character c
RECURSIVE split(_, _)
split(s, c) ==
    LET i == FindChar(s, c)
    IN  IF i = 0 THEN <<s>>
        ELSE <<SubSeq(s, 1, i - 1)>> \o split(SubSeq(s, i + 1, Len(s)), c)

\* s.split(c, 1)[0]
split1_first(s, c) ==
    LET i == FindChar(s, c)
    IN  IF i = 0 THEN s ELSE SubSeq(s, 1, i - 1)

\* p in s
Contains(s, p) ==
    \E i \in 1..(Len(s) - Len(p) + 1) : SubSeq(s, i, i + Len(p) - 1) = p

Range(f) == {f[x] : x \in DOMAIN f}

----------------------------------------------------------------------------
(* src/command/extract_dist.py: the capture command *)

\* what a raising call evaluates to
Raise(e) == [t |-> "raise", v |-> e]

\* to_list(var)
to_list(var) ==
    IF var.t = "NoneType" THEN PyList(<<>>)
    ELSE IF var.t = "str" THEN PyList(split(var.v, "\n"))
    ELSE IF var.t # "list"
         THEN IF var.t = "tuple" THEN PyList(var.v)
              ELSE IF var.t = "dict"
                   THEN PyList([i \in 1..Len(var.v) |-> var.v[i][1]])
                   ELSE Raise("ValueError")      \* list(var): TypeError
    ELSE var

\* to_str(var)
TODO == <<"T", "O", "D", "O">>

to_str(var) == IF var.t # "str" THEN PyStr(TODO) ELSE var

\* the attributes extract_dist.__init__ coerces
ListAttrs == {"setup_requires", "tests_require", "install_requires",
              "conflicts", "packages", "py_modules"}
StrAttrs  == {"url", "long_description", "description", "license"}

\* getattr(obj, attr, default) on an object modelled as a function whose
\* missing attributes hold Absent
getattr(obj, attr, default) ==
    IF attr \in DOMAIN obj /\ obj[attr].t # "absent" THEN obj[attr]
    ELSE default

\* extract_dist.__init__: the attributes of self.distribution afterwards,
\* or the exception that leaves __init__
entry_points_after_init(ep) ==
    IF PyTruthy(ep) /\ ep.t # "dict" THEN PyNone ELSE ep

extract_dist_init(dist) ==
    LET lists == [a \in ListAttrs |-> to_list(getattr(dist.attrs, a, PyList(<<>>)))]
        strs  == [a \in StrAttrs |-> to_str(getattr(dist.metadata, a, PyNone))]
        cls   == to_list(getattr(dist.metadata, "classifiers", PyList(<<>>)))
        ep    == dist.attrs["entry_points"]
    IN  IF \E a \in ListAttrs : lists[a].t = "raise" THEN Raise("ValueError")
        ELSE IF cls.t = "raise" THEN Raise("ValueError")
        ELSE IF ep.t = "absent" THEN Raise("AttributeError")
        ELSE [t |-> "Distribution",
              attrs |-> [a \in DOMAIN dist.attrs \cup ListAttrs \cup StrAttrs
                                \cup {"classifiers"} |->
                           IF a \in ListAttrs THEN lists[a]
                           ELSE IF a \in StrAttrs THEN strs[a]
                           ELSE IF a = "classifiers" THEN cls
                           ELSE IF a = "entry_points"
                                THEN entry_points_after_init(ep)
                                ELSE dist.attrs[a]],
              metadata |-> dist.metadata]

----------------------------------------------------------------------------
(* Strategy A: SetupPyMetadataExtractor *)

NAME    == <<"s", "p", "a", "m">>          \* self.name
NoPath  == <<>>
NoData  == <<>>

\* top-level directories an archive may hold, and what each holds
DirPool   == {NAME \o <<"-", "1">>, <<"s", "p">>, <<"e", "g", "g", "s">>}
Members   == {"absent", "dir", "dir_with_setup_py"}
EmptyTree == [d \in DirPool |-> "absent"]

\* glob.glob(temp_dir + "/{0}*/".format(self.name) + 'setup.py')
glob_setup_py(tree, name) ==
    {d \in DirPool : startswith(d, name) /\ tree[d] = "dir_with_setup_py"}

\* tempfile.mkdtemp() / shutil.rmtree(temp_dir) on the set of directories
mkdtemp(dirs, d)  == [x \in DOMAIN dirs \cup {d} |-> IF x = d THEN EmptyTree ELSE dirs[x]]
rmtree(dirs, d)   == [x \in DOMAIN dirs \ {d} |-> dirs[x]]

\* the `finally` of __init__: runs whatever exception e is in flight
init_finally(dirs, e) == rmtree(dirs, "extract_dir")

\* the `finally` of venv_metadata_extension.inner
venv_finally_only_when_handled(dirs, e) ==
    IF e = "none" THEN rmtree(dirs, "venv_dir") ELSE dirs

venv_finally(dirs, e) == rmtree(dirs, "venv_dir")

\* has_packages: a list never equals a set
has_packages(dist) == ~PyEq(dist.attrs["packages"], PySet({}))

\* packages
packages(dist) ==
    IF has_packages(dist)
    THEN PySet({split1_first(p, ".") : p \in Range(dist.attrs["packages"].v)})
    ELSE PyNone

PyBool(b) == [t |-> "bool", v |-> b]

\* data_from_archive of Strategy A: the fields the record keeps here
data_from_archive(dist) ==
    [home_page    |-> dist.attrs["url"],
     summary      |-> dist.attrs["description"],
     license      |-> dist.attrs["license"],
     py_modules   |-> PySet(Range(dist.attrs["py_modules"].v)),
     has_packages |-> PyBool(has_packages(dist)),
     packages     |-> packages(dist)]

----------------------------------------------------------------------------
(* the derived properties of Strategy A over the captured distribution *)

SETUPTOOLS == <<"s", "e", "t", "u", "p", "t", "o", "o", "l", "s">>

SetMax(I) == CHOOSE i \in I : \A j \in I : j <= i
SetMin(I) == CHOOSE i \in I : \A j \in I : i <= j

\* s.strip()
strip(s) ==
    LET I == {i \in 1..Len(s) : s[i] # " "}
    IN  IF I = {} THEN <<>> ELSE SubSeq(s, SetMin(I), SetMax(I))

\* os.path.basename(s)
basename(s) ==
    LET I == {i \in 1..Len(s) : s[i] = "/"}
    IN  IF I = {} THEN s ELSE SubSeq(s, SetMax(I) + 1, Len(s))

\* d.get(key, default) on a dict held as a sequence of <<key, value>> pairs
pydict_get(d, key, default) ==
    IF \E k \in 1..Len(d.v) : d.v[k][1] = key
    THEN d.v[CHOOSE k \in 1..Len(d.v) : d.v[k][1] = key][2]
    ELSE default

\* name_convertor.rpm_name(name, version): the injected naming convention
rpm_name(name) == <<"p", "y", "t", "h", "o", "n", "-">> \o name

\* deps_from_pyp_format(requires, runtime): one [relation label, name] pair
\* per specifier, the label carrying the comparison when there is one
OperatorChars == {">", "<", "=", "!", " ", "("}

deps_from_pyp_format(requires, runtime) ==
    [k \in 1..Len(requires) |->
        LET spec == requires[k]
            I    == {i \in 1..Len(spec) : spec[i] \in OperatorChars}
            cut  == IF I = {} THEN Len(spec) + 1 ELSE SetMin(I)
        IN  << [kind |-> IF runtime THEN "Requires" ELSE "BuildRequires",
                constraint |-> strip(SubSeq(spec, cut, Len(spec)))],
               SubSeq(spec, 1, cut - 1) >>]

\* name_convert_deps_list(deps_list), lines 135-139
name_convert_deps_list(deps_list) ==
    [k \in 1..Len(deps_list) |->
        <<deps_list[k][1], rpm_name(deps_list[k][2])>>]

\* runtime_deps, lines 300-315: the value returned and the distribution
\* afterwards; install_requires is the distribution's own list and append
\* changes it in place
runtime_deps(dist) ==
    LET ir == dist.attrs["install_requires"].v
        install_requires ==
            IF PyTruthy(dist.attrs["entry_points"])
                 /\ SETUPTOOLS \notin Range(ir)
            THEN Append(ir, SETUPTOOLS) ELSE ir
    IN  [dist  |-> [dist EXCEPT
                      !.attrs["install_requires"] = PyList(install_requires)],
         value |-> PyList(name_convert_deps_list(
                      deps_from_pyp_format(install_requires, TRUE)))]

\* build_deps, lines 317-329: setup_requires + tests_require is a new list
build_deps(dist) ==
    LET sum == dist.attrs["setup_requires"].v \o dist.attrs["tests_require"].v
        build_requires ==
            IF SETUPTOOLS \notin Range(sum) THEN Append(sum, SETUPTOOLS)
            ELSE sum
    IN  PyList(name_convert_deps_list(
                  deps_from_pyp_format(build_requires, FALSE)))

\* py_modules, lines 342-344
py_modules(dist) == PySet(Range(dist.attrs["py_modules"].v))

\* scripts, lines 346-359
scripts(dist) ==
    LET direct == IF PyTruthy(dist.attrs["scripts"])
                  THEN dist.attrs["scripts"].v ELSE <<>>
        cs == IF PyTruthy(dist.attrs["entry_points"])
              THEN pydict_get(dist.attrs["entry_points"], "console_scripts",
                              PyList(<<>>)).v
              ELSE <<>>
        transformed ==
            [k \in 1..Len(cs) |->
                LET equal_sign == FindChar(cs[k], "=")
                IN  IF equal_sign = 0 THEN cs[k]
                    ELSE strip(SubSeq(cs[k], 1, equal_sign - 1))]
    IN  PySet({basename(t) : t \in Range(transformed \o direct)})

\* has_test_suite, lines 403-409
has_test_suite(dist) ==
    PyBool(dist.attrs["test_suite"].t # "NoneType"
             \/ ~PyEq(dist.attrs["tests_require"], PyList(<<>>)))

----------------------------------------------------------------------------
(* the record: pyp2rpm.package_data.PackageData *)

SENTINEL   == PyStr(<<"T", "O", "D", "O", ":">>)
DataFields == {"name", "packages", "has_packages", "py_modules", "home_page",
               "summary", "license", "url", "md5"}

\* PackageData(local_file, name, pkg_name, version): unset fields read as
\* the sentinel
PackageData(name) ==
    [f \in DataFields |-> IF f = "name" THEN PyStr(name) ELSE SENTINEL]

\* data.set_from(data_dict, update): the strategy (update=False) is the sole
\* writer of the base record, an overlay (update=True) force-updates; a
\* field is never left without a value
set_from(d, data_dict, update) ==
    [f \in DOMAIN d \cup DOMAIN data_dict |->
        IF f \in DOMAIN data_dict /\ data_dict[f].t # "NoneType"
        THEN data_dict[f] ELSE d[f]]

\* lines 225-230 of extract_data: the package fallback
package_fallback_never(d) == d

package_fallback(d) ==
    IF PyEq(d["packages"], SENTINEL) \/ PyEq(d["packages"], PySet({}))
    THEN [d EXCEPT !["packages"] = PySet({d["name"].v})]
    ELSE d

----------------------------------------------------------------------------
(* the overlays *)

\* the decorators of extract_data, top to bottom as written
extract_data_decorators_swapped ==
    <<"venv_metadata_extension", "pypi_metadata_extension">>

extract_data_decorators ==
    <<"pypi_metadata_extension", "venv_metadata_extension">>

\* Each decorator's inner() first calls the function it wraps and then applies
\* its own overlay, so the overlays run from the bottom decorator upwards.
OverlayAt(k) ==
    extract_data_decorators[Len(extract_data_decorators) - k + 1]

EntryPc(dec) ==
    IF dec = "pypi_metadata_extension" THEN "pypi_release_data" ELSE "venv_check"

\* where control goes when a stage ("base" or a decorator) returns normally
AfterStage(stage) ==
    LET n == Len(extract_data_decorators)
        k == IF stage = "base" THEN 0
             ELSE CHOOSE i \in 1..n : OverlayAt(i) = stage
    IN  IF k < n THEN EntryPc(OverlayAt(k + 1)) ELSE "returned"

\* settings.PYPI_USABLE_DATA: the registry fields copied as they are
PYPI_USABLE_DATA == {"summary", "home_page"}

EMPTY_STR == PyStr(<<>>)
MIT_TROVE == <<"M", "I", "T", " ", "L">>

\* utils.license_from_trove(classifiers)
license_from_trove(classifiers) ==
    IF classifiers.t = "list" /\ MIT_TROVE \in Range(classifiers.v)
    THEN PyStr(<<"M", "I", "T">>) ELSE EMPTY_STR

\* mapping.get(key, default)
dict_get(m, key, default) == IF key \in DOMAIN m THEN m[key] ELSE default

\* data_dict of pypi_metadata_extension.inner, lines 55-62
pypi_data_dict(rd, url_md5) ==
    [f \in {"url", "md5", "license"} \cup PYPI_USABLE_DATA |->
        IF f = "url" THEN url_md5[1]
        ELSE IF f = "md5" THEN url_md5[2]
        ELSE IF f = "license"
             THEN license_from_trove(dict_get(rd, "classifiers", EMPTY_STR))
             ELSE dict_get(rd, f, EMPTY_STR)]

\* what the collaborators may answer
ReleaseDataPool ==
    { [f \in {"summary"} |-> PyStr(<<"r">>)],
      [f \in {"classifiers"} |-> PyList(<<MIT_TROVE>>)],
      [f \in {"summary", "home_page", "classifiers"} |->
          IF f = "classifiers" THEN PyList(<<MIT_TROVE>>) ELSE PyStr(<<"r">>)] }

UrlPool == { <<PyStr(<<"u">>), PyStr(<<"5">>)>> }

VenvDataPool ==
    { [f \in {"packages"} |-> PySet({NAME, <<"x">>})],
      [f \in {"packages", "summary"} |->
          IF f = "packages" THEN PySet({NAME}) ELSE PyStr(<<"v">>)],
      [f \in {"license", "md5"} |-> PyStr(<<"v">>)] }

\* values a descriptor may pass as packages=
PackagesPool ==
    { Absent, PyNone, PyList(<<>>), PyTuple(<<>>),
      PyList(<<NAME>>),
      PyList(<<NAME \o <<".", "a">>, NAME \o <<".", "a", ".", "b">>, <<"e">>>>),
      PyTuple(<<<<"e", ".", "f">>>>),
      PyStr(<<"e", ".", "f", "\n", "g">>), PyStr(<<>>),
      PyInt(3) }

\* the attributes of a raw Distribution (setuptools defines entry_points,
\* scripts and test_suite on every Distribution)
DistAttrs == ListAttrs \cup {"entry_points", "scripts", "test_suite"}
MetaAttrs == StrAttrs \cup {"classifiers"}

PlainDist(pkgs) ==
    [t |-> "Distribution",
     attrs |-> [a \in DistAttrs |->
                  IF a = "packages" THEN pkgs
                  ELSE IF a \in {"entry_points", "scripts", "test_suite"}
                       THEN PyNone ELSE Absent],
     metadata |-> [a \in MetaAttrs |->
                     IF a \in {"url", "description"} THEN PyStr(<<"d">>)
                     ELSE PyNone]]

----------------------------------------------------------------------------
(* SetupPyMetadataExtractor.__init__, lines 280-298 *)

\* Archive.__enter__ / Archive.__exit__: the handle is open inside the
\* bracket and closed outside it
Archive_enter == TRUE
Archive_exit  == FALSE

\* leaving `with self.archive` while exception e is in flight ("none" on the
\* normal path): the with statement calls __exit__ either way
with_exit_only_on_success(open, e) == IF e = "none" THEN Archive_exit ELSE open

with_exit(open, e) == Archive_exit

\* the archive methods called in ops, each recorded with the state of the
\* handle at the call
archive_read(reads, ops, open) ==
    reads \cup {[op |-> o, open |-> open] : o \in ops}

\* the archive methods behind data_from_archive of Strategy A: has_extension
\* and has_bundled_egg_info, doc_files and sphinx_dir
SetupPyArchiveOps == {"has_file_with_suffix", "get_files_re",
                      "get_directories_re"}

\* the process before any descriptor has been run in it
HOME      == "/home/user"
ARGV0     == "pyp2rpm"
CLI_ARGS  == <<"-n", "spam">>
SITE_PATH == "site-packages"

sysIdle ==
    /\ props = <<>>
    /\ cwd = HOME
    /\ sys_argv = <<ARGV0>> \o CLI_ARGS
    /\ sys_path = <<SITE_PATH>>

\* os.path.dirname(setup_py) for the descriptor found in directory d of the
\* extraction directory
dirname(d) == <<"extract_dir", d>>

\* sys.path.insert(0, dirname)
sys_path_insert(path, d) == <<d>> \o path

\* sys.argv[1:] = args
sys_argv_set_tail(argv, args) == <<argv[1]>> \o args

\* the arguments __init__ passes to current_interpreter_run, lines 293-294
EXTRACT_ARGS == <<"--quiet", "--command-packages", "command", "extract_dist">>

otherIdle ==
    /\ doc_files = <<>> /\ doc_split = <<>>
    /\ long_desc = <<>> /\ desc_out = <<>>
    /\ runner = <<>> /\ proc = <<>>
    /\ sysIdle

PipeInit ==
    /\ pc = "new"
    /\ archive_reads = {}
    /\ archive_tree \in [DirPool -> Members]
    /\ archive_open = FALSE
    /\ tempdirs = <<>>
    /\ setup_py = NoPath
    /\ runs = 0
    /\ raw_dist = PyNone
    /\ class_dist = PyNone
    /\ distribution = Absent
    /\ cfg \in [venv : BOOLEAN, virtualenv : BOOLEAN]
    /\ client = "unset"
    /\ data = NoData
    /\ pre = NoData
    /\ stages = <<>>
    /\ events = {}
    /\ exc = "none"
    /\ release_data = <<>>
    /\ otherIdle

\* temp_dir = tempfile.mkdtemp()
InitMkdtemp ==
    /\ pc = "new"
    /\ tempdirs' = mkdtemp(tempdirs, "extract_dir")
    /\ pc' = "init_enter"
    /\ UNCHANGED <<archive_tree, archive_reads,
                   archive_open, setup_py, runs, raw_dist,
                   class_dist, distribution, cfg, client, data, pre, stages,
                   events, exc, release_data,
                   docVars, descVars, runVars,
                   sysVars, propVars>>

\* with self.archive as a:  (opening an unreadable archive raises)
InitOpenArchive ==
    /\ pc = "init_enter"
    /\ \E ok \in BOOLEAN :
         IF ok
         THEN /\ archive_open' = Archive_enter
              /\ pc' = "init_extract"
              /\ UNCHANGED <<exc, events>>
         ELSE /\ exc' = "ArchiveError"
              /\ events' = events \cup {"archive_error"}
              /\ pc' = "init_finally"
              /\ UNCHANGED archive_open
    /\ UNCHANGED <<archive_tree, archive_reads,
                   tempdirs, setup_py, runs, raw_dist,
                   class_dist, distribution, cfg, client, data, pre, stages,
                   release_data,
                   docVars, descVars, runVars,
                   sysVars, propVars>>

\* a.extract_all(directory=temp_dir)
InitExtractAll ==
    /\ pc = "init_extract"
    /\ tempdirs' = [tempdirs EXCEPT !["extract_dir"] = archive_tree]
    /\ archive_reads' = archive_read(archive_reads, {"extract_all"},
                                     archive_open)
    /\ pc' = "init_glob"
    /\ UNCHANGED <<archive_tree,
                   archive_open, setup_py, runs, raw_dist,
                   class_dist, distribution, cfg, client, data, pre, stages,
                   events, exc, release_data,
                   docVars, descVars, runVars,
                   sysVars, propVars>>

\* what a missing descriptor raises, lines 289-292
missing_setup_py_only_warns == "none"

missing_setup_py == "SystemExit(3)"

\* setup_py = glob.glob(...)[0], or SystemExit(3) on IndexError
InitGlob ==
    /\ pc = "init_glob"
    /\ LET found == glob_setup_py(tempdirs["extract_dir"], NAME)
       IN  IF found = {}
           THEN /\ exc' = missing_setup_py
                /\ events' = events \cup {"setup_py_missing"}
                /\ pc' = IF missing_setup_py = "none" THEN "init_run"
                         ELSE "init_exit"
                /\ UNCHANGED setup_py
           ELSE /\ \E d \in found : setup_py' = d
                /\ pc' = "init_run"
                /\ UNCHANGED <<exc, events>>
    /\ UNCHANGED <<archive_tree, archive_reads,
                   archive_open, tempdirs, runs, raw_dist,
                   class_dist, distribution, cfg, client, data, pre, stages,
                   release_data,
                   docVars, descVars, runVars,
                   sysVars, propVars>>

\* current_interpreter_run(setup_py, ..., 'extract_dist'): the descriptor
\* raises, or runs the command (extract_dist.__init__ then extract_dist.run),
\* or ends without ever running a command.  utils.ChangeDir puts the working
\* directory back on the way out; sys.path and sys.argv keep what was written.
InitRunDescriptor ==
    /\ pc = "init_run"
    /\ runs' = runs + 1
    /\ \/ /\ exc' = "DescriptorError"
          /\ events' = events \cup {"descriptor_raised"}
          /\ pc' = "init_exit"
          /\ UNCHANGED <<raw_dist, class_dist>>
       \/ \E pkgs \in PackagesPool :
            LET raw == PlainDist(pkgs)
                d   == extract_dist_init(raw)
            IN  /\ raw_dist' = raw
                /\ IF d.t = "raise"
                   THEN /\ exc' = d.v
                        /\ events' = events \cup {"command_raised"}
                        /\ pc' = "init_exit"
                        /\ UNCHANGED class_dist
                   ELSE /\ class_dist' = d
                        /\ pc' = "init_assign"
                        /\ UNCHANGED <<exc, events>>
       \/ /\ pc' = "init_assign"
          /\ events' = events \cup {"no_command_run"}
          /\ UNCHANGED <<raw_dist, class_dist, exc>>
    /\ sys_path' = sys_path_insert(sys_path, dirname(setup_py))
    /\ sys_argv' = sys_argv_set_tail(sys_argv, EXTRACT_ARGS)
    /\ UNCHANGED <<archive_tree, archive_reads,
                   archive_open, tempdirs, setup_py,
                   distribution, cfg, client, data, pre, stages, release_data,
                   docVars, descVars, runVars, cwd, propVars>>

\* self.distribution = extract_dist.extract_dist.class_dist
InitAssign ==
    /\ pc = "init_assign"
    /\ distribution' = class_dist
    /\ pc' = "init_exit"
    /\ UNCHANGED <<archive_tree, archive_reads,
                   archive_open, tempdirs, setup_py, runs,
                   raw_dist, class_dist, cfg, client, data, pre, stages,
                   events, exc, release_data,
                   docVars, descVars, runVars,
                   sysVars, propVars>>

\* leaving `with self.archive`
InitCloseArchive ==
    /\ pc = "init_exit"
    /\ archive_open' = with_exit(archive_open, exc)
    /\ pc' = "init_finally"
    /\ UNCHANGED <<archive_tree, archive_reads,
                   tempdirs, setup_py, runs, raw_dist,
                   class_dist, distribution, cfg, client, data, pre, stages,
                   events, exc, release_data,
                   docVars, descVars, runVars,
                   sysVars, propVars>>

\* finally: shutil.rmtree(temp_dir); then the exception, if any, leaves
InitFinally ==
    /\ pc = "init_finally"
    /\ tempdirs' = init_finally(tempdirs, exc)
    /\ pc' = IF exc = "none" THEN "constructed" ELSE "failed"
    /\ UNCHANGED <<archive_tree, archive_reads,
                   archive_open, setup_py, runs, raw_dist,
                   class_dist, distribution, cfg, client, data, pre, stages,
                   events, exc, release_data,
                   docVars, descVars, runVars,
                   sysVars, propVars>>

----------------------------------------------------------------------------
(* LocalMetadataExtractor.extract_data with its two decorators *)

\* extractor.extract_data(client): control enters the outer inner()s, each of
\* which first calls what it wraps, down to the undecorated method
ExtractDataCall ==
    /\ pc = "constructed"
    /\ \E c \in {"None", "client"} : client' = c
    /\ pc' = "base_create"
    /\ UNCHANGED <<archive_tree, archive_reads,
                   archive_open, tempdirs, setup_py, runs,
                   raw_dist, class_dist, distribution, cfg, data, pre, stages,
                   events, exc, release_data,
                   docVars, descVars, runVars,
                   sysVars, propVars>>

\* data = PackageData(...)
BaseCreate ==
    /\ pc = "base_create"
    /\ data' = PackageData(NAME)
    /\ pc' = "base_open"
    /\ UNCHANGED <<archive_tree, archive_reads,
                   archive_open, tempdirs, setup_py, runs,
                   raw_dist, class_dist, distribution, cfg, client, pre,
                   stages, events, exc, release_data,
                   docVars, descVars, runVars,
                   sysVars, propVars>>

\* with self.archive:
BaseOpenArchive ==
    /\ pc = "base_open"
    /\ archive_open' = Archive_enter
    /\ pc' = "base_set_from"
    /\ UNCHANGED <<archive_tree, archive_reads,
                   tempdirs, setup_py, runs, raw_dist,
                   class_dist, distribution, cfg, client, data, pre, stages,
                   events, exc, release_data,
                   docVars, descVars, runVars,
                   sysVars, propVars>>

\* data.set_from(self.data_from_archive); reading an attribute of a
\* distribution that is None raises AttributeError
BaseSetFrom ==
    /\ pc = "base_set_from"
    /\ IF distribution.t = "Distribution"
       THEN LET d == runtime_deps(distribution).dist
            IN  /\ data' = set_from(data, data_from_archive(d), FALSE)
                /\ distribution' = d
                /\ class_dist' = d
                /\ archive_reads' = archive_read(archive_reads,
                                        SetupPyArchiveOps, archive_open)
                /\ UNCHANGED <<exc, events>>
       ELSE /\ exc' = "AttributeError"
            /\ events' = events \cup {"no_distribution"}
            /\ UNCHANGED <<data, distribution, class_dist, archive_reads>>
    /\ pc' = "base_close"
    /\ UNCHANGED <<archive_tree,
                   archive_open, tempdirs, setup_py, runs,
                   raw_dist, cfg, client, pre,
                   stages, release_data,
                   docVars, descVars, runVars,
                   sysVars, propVars>>

\* leaving `with self.archive`
BaseCloseArchive ==
    /\ pc = "base_close"
    /\ archive_open' = with_exit(archive_open, exc)
    /\ pc' = IF exc = "none" THEN "base_fixups" ELSE "raised"
    /\ UNCHANGED <<archive_tree, archive_reads,
                   tempdirs, setup_py, runs, raw_dist,
                   class_dist, distribution, cfg, client, data, pre, stages,
                   events, exc, release_data,
                   docVars, descVars, runVars,
                   sysVars, propVars>>

\* lines 225-232: the package fallback, then return data
BaseFixups ==
    /\ pc = "base_fixups"
    /\ data' = package_fallback(data)
    /\ stages' = Append(stages, [who |-> "base", wrote |-> <<>>])
    /\ pc' = AfterStage("base")
    /\ UNCHANGED <<archive_tree, archive_reads,
                   archive_open, tempdirs, setup_py, runs,
                   raw_dist, class_dist, distribution, cfg, client, pre,
                   events, exc, release_data,
                   docVars, descVars, runVars,
                   sysVars, propVars>>

\* venv_metadata_extension.inner, lines 75-79
VenvCheck ==
    /\ pc = "venv_check"
    /\ pre' = data
    /\ IF ~cfg.virtualenv \/ ~cfg.venv
       THEN /\ pc' = AfterStage("venv_metadata_extension")
            /\ UNCHANGED tempdirs
       ELSE /\ tempdirs' = mkdtemp(tempdirs, "venv_dir")
            /\ pc' = "venv_try"
    /\ UNCHANGED <<archive_tree, archive_reads,
                   archive_open, setup_py, runs, raw_dist,
                   class_dist, distribution, cfg, client, data, stages,
                   events, exc, release_data,
                   docVars, descVars, runVars,
                   sysVars, propVars>>

\* lines 80-86: the try block and its one except clause
VenvProbe ==
    /\ pc = "venv_try"
    /\ \/ \E vd \in VenvDataPool :
            /\ data' = set_from(data, vd, TRUE)
            /\ stages' = Append(stages, [who |-> "venv_metadata_extension",
                                         wrote |-> vd])
            /\ UNCHANGED <<events, exc>>
       \/ /\ events' = events \cup {"VirtualenvFailException"}
          /\ UNCHANGED <<data, stages, exc>>
       \/ /\ events' = events \cup {"venv_other_exception"}
          /\ exc' = "OSError"
          /\ UNCHANGED <<data, stages>>
    /\ pc' = "venv_finally"
    /\ UNCHANGED <<archive_tree, archive_reads,
                   archive_open, tempdirs, setup_py, runs,
                   raw_dist, class_dist, distribution, cfg, client, pre,
                   release_data,
                   docVars, descVars, runVars,
                   sysVars, propVars>>

\* lines 87-89: finally: shutil.rmtree(temp_dir); return data
VenvFinally ==
    /\ pc = "venv_finally"
    /\ tempdirs' = venv_finally(tempdirs, exc)
    /\ pc' = IF exc = "none" THEN AfterStage("venv_metadata_extension")
             ELSE "raised"
    /\ UNCHANGED <<archive_tree, archive_reads,
                   archive_open, setup_py, runs, raw_dist,
                   class_dist, distribution, cfg, client, data, pre, stages,
                   events, exc, release_data,
                   docVars, descVars, runVars,
                   sysVars, propVars>>

\* pypi_metadata_extension.inner, lines 46-53
PypiReleaseData ==
    /\ pc = "pypi_release_data"
    /\ pre' = data
    /\ IF client = "None"
       THEN /\ events' = events \cup {"client_is_None"}
            /\ pc' = AfterStage("pypi_metadata_extension")
            /\ UNCHANGED release_data
       ELSE \/ /\ events' = events \cup {"release_data_failed"}
               /\ pc' = AfterStage("pypi_metadata_extension")
               /\ UNCHANGED release_data
            \/ \E rd \in ReleaseDataPool :
                 /\ release_data' = rd
                 /\ pc' = "pypi_get_url"
                 /\ UNCHANGED events
    /\ UNCHANGED <<archive_tree, archive_reads,
                   archive_open, tempdirs, setup_py, runs,
                   raw_dist, class_dist, distribution, cfg, client, data,
                   stages, exc,
                   docVars, descVars, runVars,
                   sysVars, propVars>>

\* lines 55-64: get_url is called outside the try block
PypiGetUrl ==
    /\ pc = "pypi_get_url"
    /\ \/ \E um \in UrlPool :
            LET data_dict == pypi_data_dict(release_data, um)
            IN  /\ data' = set_from(data, data_dict, TRUE)
                /\ stages' = Append(stages, [who |-> "pypi_metadata_extension",
                                             wrote |-> data_dict])
                /\ pc' = AfterStage("pypi_metadata_extension")
                /\ UNCHANGED <<events, exc>>
       \/ /\ events' = events \cup {"get_url_failed"}
          /\ exc' = "MissingUrlException"
          /\ pc' = "raised"
          /\ UNCHANGED <<data, stages>>
    /\ UNCHANGED <<archive_tree, archive_reads,
                   archive_open, tempdirs, setup_py, runs,
                   raw_dist, class_dist, distribution, cfg, client, pre,
                   release_data,
                   docVars, descVars, runVars,
                   sysVars, propVars>>

PipeNext ==
    \/ InitMkdtemp \/ InitOpenArchive \/ InitExtractAll \/ InitGlob
    \/ InitRunDescriptor \/ InitAssign \/ InitCloseArchive \/ InitFinally
    \/ ExtractDataCall \/ BaseCreate \/ BaseOpenArchive \/ BaseSetFrom
    \/ BaseCloseArchive \/ BaseFixups \/ VenvCheck \/ VenvProbe
    \/ VenvFinally \/ PypiReleaseData \/ PypiGetUrl

Spec == PipeInit /\ [][PipeNext]_vars

----------------------------------------------------------------------------
(* properties of the pipeline *)

RegistryFailures == {"client_is_None", "release_data_failed", "get_url_failed"}
VenvFailures     == {"VirtualenvFailException", "venv_other_exception"}

Who(i) == stages[i].who
Wrote(dec) ==
    stages[CHOOSE i \in 1..Len(stages) : Who(i) = dec].wrote
HasWritten(dec) == \E i \in 1..Len(stages) : Who(i) = dec

\* C1: whatever registry call fails during the registry overlay (client is
\* None, release_data, or the download-url/checksum lookup), extract_data
\* does not raise and the record is the one the overlay was given.
C1_RegistryOverlayNonFatal ==
    (events \cap RegistryFailures # {}) =>
        /\ pc # "raised"
        /\ exc = "none"
        /\ data = pre

\* C2: whatever fails while the environment is provisioned or harvested
\* (VirtualenvFailException or any other exception), the environment overlay
\* absorbs it: no exception is in flight when its try statement is left,
\* none reaches the caller, and the record is the one the overlay was given.
C2_EnvOverlayNeverFatal ==
    (events \cap VenvFailures # {}) =>
        /\ pc = "venv_finally" => (exc = "none" /\ data = pre)
        /\ pc # "raised"

\* C3: the extraction directory exists only while __init__ is running and
\* the environment directory only while the environment overlay's try
\* statement is running: both are gone on every exit path.
InInit == {"init_enter", "init_extract", "init_glob", "init_run",
           "init_assign", "init_exit", "init_finally"}

C3_TempDirsRemoved ==
    /\ pc \notin InInit => "extract_dir" \notin DOMAIN tempdirs
    /\ pc \notin {"venv_try", "venv_finally"} => "venv_dir" \notin DOMAIN tempdirs
    /\ pc \in {"constructed", "failed", "returned", "raised"}
          => DOMAIN tempdirs = {}

\* C3 witness: the environment overlay left by an unexpected exception, after
\* a construction that made and removed its extraction directory
C3_Witness ==
    /\ pc = "raised" /\ exc = "OSError"
    /\ "venv_other_exception" \in events
    /\ DOMAIN tempdirs = {}

\* C4 as claimed: the registry overlay writes before the environment overlay,
\* so the environment's value is the one returned for a field both wrote.
C4_RegistryThenEnvironment ==
    /\ \A i, j \in 1..Len(stages) :
          (Who(i) = "venv_metadata_extension"
              /\ Who(j) = "pypi_metadata_extension") => j < i
    /\ (pc = "returned" /\ HasWritten("venv_metadata_extension")
            /\ HasWritten("pypi_metadata_extension")) =>
          \A f \in DOMAIN Wrote("venv_metadata_extension")
                     \cap DOMAIN Wrote("pypi_metadata_extension") :
             data[f] = Wrote("venv_metadata_extension")[f]

\* C4 amended: the base record is written first, then the environment
\* overlay, then the registry overlay; for a field both overlays wrote the
\* returned record holds the registry's value.
C4_EnvironmentThenRegistry ==
    /\ \A i \in 1..Len(stages) : (Who(i) = "base") <=> (i = 1)
    /\ \A i, j \in 1..Len(stages) :
          (Who(i) = "venv_metadata_extension"
              /\ Who(j) = "pypi_metadata_extension") => i < j
    /\ (pc = "returned" /\ HasWritten("venv_metadata_extension")
            /\ HasWritten("pypi_metadata_extension")) =>
          \A f \in DOMAIN Wrote("venv_metadata_extension")
                     \cap DOMAIN Wrote("pypi_metadata_extension") :
             data[f] = Wrote("pypi_metadata_extension")[f]

\* C4 witness: both overlays wrote a common field with different values
C4_Witness ==
    /\ pc = "returned"
    /\ Len(stages) = 3
    /\ \E f \in DOMAIN stages[2].wrote \cap DOMAIN stages[3].wrote :
          stages[2].wrote[f] # stages[3].wrote[f]

\* C5: the record the undecorated extract_data returns holds {name} as its
\* package set when the descriptor declared no package, and otherwise the
\* set of the top-level components of the declared packages.
DeclaredPackages ==
    LET p == raw_dist.attrs["packages"]
    IN  IF p.t \in {"list", "tuple"} THEN Range(p.v)
        ELSE IF p.t = "str" THEN Range(split(p.v, "\n"))
        ELSE {}

IsTopLevelOf(c, p) ==
    /\ \A i \in 1..Len(c) : c[i] # "."
    /\ \/ c = p
       \/ Len(p) > Len(c) /\ SubSeq(p, 1, Len(c)) = c /\ p[Len(c) + 1] = "."

BaseReturned == Len(stages) = 1

C5_PackageFallback ==
    BaseReturned =>
        /\ data["packages"].t = "set"
        /\ IF DeclaredPackages = {}
           THEN data["packages"].v = {NAME}
           ELSE /\ \A p \in DeclaredPackages :
                      \E c \in data["packages"].v : IsTopLevelOf(c, p)
                /\ \A c \in data["packages"].v :
                      \E p \in DeclaredPackages : IsTopLevelOf(c, p)

\* C5 witness: a descriptor without packages= got the name as its package
C5_Witness ==
    /\ BaseReturned
    /\ raw_dist.attrs["packages"].t = "absent"
    /\ data["packages"] = PySet({NAME})

\* C8: when glob finds no <name>*/setup.py in the extracted tree, __init__
\* ends in SystemExit(3): the descriptor is never run, self.distribution is
\* never set and no record is made.
C8_MissingDescriptorFatal ==
    ("setup_py_missing" \in events) =>
        /\ exc = "SystemExit(3)"
        /\ pc \in {"init_exit", "init_finally", "failed"}
        /\ runs = 0
        /\ distribution.t = "absent"
        /\ data = NoData

\* C8 witness: construction failed although another directory of the
\* archive holds a setup.py
C8_Witness ==
    /\ pc = "failed" /\ exc = "SystemExit(3)"
    /\ "setup_py_missing" \in events
    /\ \E d \in DirPool : archive_tree[d] = "dir_with_setup_py"

----------------------------------------------------------------------------
(* LocalMetadataExtractor.separate_license_files, lines 234-240 *)

UPPER == <<"A", "B", "C", "D", "E", "F", "G", "H", "I", "J", "K", "L", "M",
           "N", "O", "P", "Q", "R", "S", "T", "U", "V", "W", "X", "Y", "Z">>
LOWER == <<"a", "b", "c", "d", "e", "f", "g", "h", "i", "j", "k", "l", "m",
           "n", "o", "p", "q", "r", "s", "t", "u", "v", "w", "x", "y", "z">>

\* str.lower()
lower(s) ==
    [i \in 1..Len(s) |->
        IF \E k \in 1..26 : UPPER[k] = s[i]
        THEN LOWER[CHOOSE k \in 1..26 : UPPER[k] = s[i]]
        ELSE s[i]]

\* settings.LICENSE_FILES: the license-filename markers
LICENSE_FILES == { <<"l", "i", "c", "e", "n", "s", "e">>,
                   <<"c", "o", "p", "y", "i", "n", "g">> }

\* separate_license_files(doc_files) -> (other, licenses)
separate_license_files_case_sensitive(docs) ==
    LET IsOther(doc)   == \A m \in LICENSE_FILES : ~Contains(doc, m)
        IsLicense(doc) == \E m \in LICENSE_FILES : Contains(doc, m)
    IN  [other |-> SelectSeq(docs, IsOther),
         licenses |-> SelectSeq(docs, IsLicense)]

separate_license_files(docs) ==
    LET IsOther(doc)   == \A m \in LICENSE_FILES : ~Contains(lower(doc), m)
        IsLicense(doc) == \E m \in LICENSE_FILES : Contains(lower(doc), m)
    IN  [other |-> SelectSeq(docs, IsOther),
         licenses |-> SelectSeq(docs, IsLicense)]

\* doc file candidates
LICENSE_txt == <<"L", "I", "C", "E", "N", "S", "E", ".", "t", "x", "t">>
README_rst  == <<"R", "E", "A", "D", "M", "E", ".", "r", "s", "t">>
COPYING     == <<"C", "O", "P", "Y", "I", "N", "G">>
DocPool == { LICENSE_txt, README_rst, COPYING,
             <<"d", "/", "C", "o", "p", "y", "i", "n", "g", ".", "L", "i", "c", "e", "n", "s", "e">>,
             <<"L", "I", "C", "E", "N", "C", "E">>,
             <<"c", "o", "p", "y">> }

MaxDocs == 3

SeqsUpTo(S, n) == UNION {[1..k -> S] : k \in 0..n}

\* the pipeline at rest, for the specifications of single functions
PipeIdle ==
    /\ pc = "idle"
    /\ archive_reads = {}
    /\ archive_tree = EmptyTree
    /\ archive_open = FALSE
    /\ tempdirs = <<>>
    /\ setup_py = NoPath
    /\ runs = 0
    /\ raw_dist = PyNone
    /\ class_dist = PyNone
    /\ distribution = Absent
    /\ cfg = [venv |-> FALSE, virtualenv |-> FALSE]
    /\ client = "unset"
    /\ data = NoData
    /\ pre = NoData
    /\ stages = <<>>
    /\ events = {}
    /\ exc = "none"
    /\ release_data = <<>>

NoSplit == [done |-> FALSE, other |-> <<>>, licenses |-> <<>>]

DocInit ==
    /\ PipeIdle
    /\ doc_files \in SeqsUpTo(DocPool, MaxDocs)
    /\ doc_split = NoSplit
    /\ long_desc = <<>> /\ desc_out = <<>>
    /\ runner = <<>> /\ proc = <<>>
    /\ sysIdle

\* (archive_data['doc_files'], archive_data['doc_license']) =
\*     self.separate_license_files(self.doc_files)
SeparateLicenseFiles ==
    /\ ~doc_split.done
    /\ LET r == separate_license_files(doc_files)
       IN  doc_split' = [done |-> TRUE, other |-> r.other,
                         licenses |-> r.licenses]
    /\ UNCHANGED <<doc_files, pipeVars, descVars, runVars, sysVars, propVars>>

DocNext == SeparateLicenseFiles

SpecDocs == DocInit /\ [][DocNext]_vars

\* the subsequence of s at the index set I, in increasing order
Pick(s, I) ==
    [k \in 1..Cardinality(I) |->
        s[CHOOSE i \in I : Cardinality({j \in I : j < i}) = k - 1]]

HasMarker(doc) == \E m \in LICENSE_FILES : Contains(lower(doc), m)

\* C6: the split is an order-preserving partition of the candidates: the
\* license output is the candidates whose lower-cased name contains a
\* marker, the other output is the rest, each in its original order.
C6_DocLicensePartition ==
    doc_split.done =>
        LET L == {i \in 1..Len(doc_files) : HasMarker(doc_files[i])}
            O == (1..Len(doc_files)) \ L
        IN  /\ doc_split.licenses = Pick(doc_files, L)
            /\ doc_split.other = Pick(doc_files, O)

\* C6 witness: the example [LICENSE.txt, README.rst, COPYING]
C6_Witness ==
    /\ doc_split.done
    /\ doc_files = <<LICENSE_txt, README_rst, COPYING>>
    /\ doc_split.licenses = <<LICENSE_txt, COPYING>>
    /\ doc_split.other = <<README_rst>>

----------------------------------------------------------------------------
(* src/pyp2rpm/module_runners.py *)

\* stdout of the subprocess, as a sequence of chunks; MARKER is the line
\* "extracted json data:\n", "{a}" and "{b}" are well-formed JSON documents
MARKER      == "extracted json data:\n"
JsonChunks  == {"{a}", "{b}"}
StdoutPool ==
    { <<>>,
      <<"noise">>,
      <<"noise", MARKER, "{a}">>,
      <<MARKER, "{b}">>,
      <<MARKER, "{a}", "Traceback">>,
      <<MARKER>>,
      <<"noise", MARKER, "{a}", MARKER, "{b}">> }

MaxReturncode == 1
MaxRuns       == 2

\* json.loads(text)
json_loads(text) ==
    IF Len(text) = 1 /\ text[1] \in JsonChunks
    THEN PyDict(<<<<text[1], PyNone>>>>)
    ELSE Raise("ValueError")

\* ExternModuleRunner.run, lines 49-55: what happens to the runner when the
\* subprocess ends with this returncode and this stdout
extern_run(r, returncode, stdout) ==
    LET pieces == split(stdout, MARKER)
        parsed == json_loads(pieces[Len(pieces)])
        logged == IF returncode # 0 THEN r.errors_logged + 1
                  ELSE r.errors_logged
    IN  IF parsed.t = "raise"
        THEN [r EXCEPT !.status = "raised", !.errors_logged = logged]
        ELSE [r EXCEPT !.status = "returned", !.errors_logged = logged,
                       !.has_result = TRUE, !._result = parsed]

\* ExternModuleRunner.results, lines 58-62
extern_results(r) == IF r.has_result THEN r._result ELSE PyNone

NewRunner ==
    [status |-> "new", has_result |-> FALSE, _result |-> PyNone,
     errors_logged |-> 0, run_count |-> 0, read |-> Absent]

RunnerInit ==
    /\ PipeIdle
    /\ doc_files = <<>> /\ doc_split = <<>>
    /\ long_desc = <<>> /\ desc_out = <<>>
    /\ runner = NewRunner
    /\ proc = [returncode |-> 0, stdout |-> <<>>]
    /\ sysIdle

\* runner.run() of an ExternModuleRunner
ExternRun ==
    /\ runner.run_count < MaxRuns
    /\ \E rc \in 0..MaxReturncode, out \in StdoutPool :
         /\ proc' = [returncode |-> rc, stdout |-> out]
         /\ runner' = [extern_run(runner, rc, out) EXCEPT
                          !.run_count = runner.run_count + 1,
                          !.read = Absent]
    /\ UNCHANGED <<pipeVars, docVars, descVars, sysVars, propVars>>

\* runner.results after a run
ExternResults ==
    /\ runner.status # "new"
    /\ runner' = [runner EXCEPT !.read = extern_results(runner)]
    /\ UNCHANGED <<proc, pipeVars, docVars, descVars, sysVars, propVars>>

RunnerNext == ExternRun \/ ExternResults

SpecRunner == RunnerInit /\ [][RunnerNext]_vars

\* C7: a run whose subprocess exited non-zero, or whose stdout holds no
\* parseable result, fails with an error the caller sees: run() returns
\* normally only after exit status 0 with the result of that very run, and
\* results never hands out None or the result of an earlier run.
ParseableStdout ==
    LET pieces == split(proc.stdout, MARKER)
    IN  json_loads(pieces[Len(pieces)]).t # "raise"

C7_SandboxFailureReported ==
    /\ (runner.status = "returned") =>
          (proc.returncode = 0 /\ ParseableStdout)
    /\ (runner.status = "returned" /\ runner.read.t # "absent") =>
          runner.read.t # "NoneType"

----------------------------------------------------------------------------
(* ModuleRunner: the descriptor run inside this process, lines 16-38 *)

\* utils.ChangeDir(new_path): __enter__ remembers os.getcwd() and changes to
\* new_path, __exit__ changes back to the remembered directory
ChangeDir_enter(dir, new_path) == [primary_path |-> dir, cwd |-> new_path]
ChangeDir_exit(cd)             == cd.primary_path

\* what the descriptors run here pass as packages=
CapturePool ==
    {PyList(<<NAME>>), PyTuple(<<<<"e", ".", "f">>>>), PyNone, PyInt(3)}

\* the attributes of the class extract_dist: class_dist is the only one the
\* module defines besides description and user_options
ExtractDistClassAttrs == {"description", "user_options", "class_dist"}

\* ModuleRunner.results: extract_dist.extract_dist.class_metadata
module_results(slot) ==
    IF "class_metadata" \in ExtractDistClassAttrs THEN slot
    ELSE Raise("AttributeError")

NoChangeDir == [primary_path |-> "", cwd |-> ""]

\* ModuleRunner(module, *args) for the descriptor found in NAME-1
NewModuleRunner ==
    [dirname |-> dirname(NAME \o <<"-", "1">>), args |-> EXTRACT_ARGS,
     status |-> "new", run_count |-> 0, captured |-> FALSE,
     before |-> Absent, change_dir |-> NoChangeDir,
     read |-> Absent, slot_read |-> Absent]

InProcessInit ==
    /\ PipeIdle
    /\ doc_files = <<>> /\ doc_split = <<>>
    /\ long_desc = <<>> /\ desc_out = <<>>
    /\ runner = NewModuleRunner
    /\ proc = <<>>
    /\ sysIdle

\* run(), line 31: with utils.ChangeDir(self.dirname)
ModuleRunEnter ==
    /\ pc = "idle"
    /\ runner.run_count < MaxRuns
    /\ LET cd == ChangeDir_enter(cwd, runner.dirname)
       IN  /\ cwd' = cd.cwd
           /\ runner' = [runner EXCEPT
                 !.status = "running", !.captured = FALSE,
                 !.run_count = runner.run_count + 1,
                 !.change_dir = cd,
                 !.before = [cwd |-> cwd, sys_argv |-> sys_argv,
                             sys_path |-> sys_path, class_dist |-> class_dist],
                 !.read = Absent, !.slot_read = Absent]
    /\ pc' = "run_path_insert"
    /\ exc' = "none"
    /\ UNCHANGED <<archive_tree, archive_reads,
                   archive_open, tempdirs, setup_py, runs,
                   raw_dist, class_dist, distribution, cfg, client, data, pre,
                   stages, events, release_data, proc, sys_argv, sys_path,
                   docVars, descVars, propVars>>

\* run(), line 32: sys.path.insert(0, self.dirname)
ModuleRunPathInsert ==
    /\ pc = "run_path_insert"
    /\ sys_path' = sys_path_insert(sys_path, runner.dirname)
    /\ pc' = "run_set_argv"
    /\ UNCHANGED <<archive_tree, archive_reads,
                   archive_open, tempdirs, setup_py, runs,
                   raw_dist, class_dist, distribution, cfg, client, data, pre,
                   stages, events, exc, release_data, runVars, cwd, sys_argv,
                   docVars, descVars, propVars>>

\* run(), line 33: sys.argv[1:] = self.args
ModuleRunSetArgv ==
    /\ pc = "run_set_argv"
    /\ sys_argv' = sys_argv_set_tail(sys_argv, runner.args)
    /\ pc' = "run_module"
    /\ UNCHANGED <<archive_tree, archive_reads,
                   archive_open, tempdirs, setup_py, runs,
                   raw_dist, class_dist, distribution, cfg, client, data, pre,
                   stages, events, exc, release_data, runVars, cwd, sys_path,
                   docVars, descVars, propVars>>

\* run(), line 34: runpy.run_module(...).  The descriptor raises, or runs the
\* command (extract_dist.__init__ then extract_dist.run, which stores the
\* distribution in class_dist), or ends without running a command.
ModuleRunModule ==
    /\ pc = "run_module"
    /\ runs' = runs + 1
    /\ \/ /\ exc' = "DescriptorError"
          /\ UNCHANGED <<raw_dist, class_dist, runner>>
       \/ \E pkgs \in CapturePool :
            LET raw == PlainDist(pkgs)
                d   == extract_dist_init(raw)
            IN  /\ raw_dist' = raw
                /\ IF d.t = "raise"
                   THEN /\ exc' = d.v
                        /\ UNCHANGED <<class_dist, runner>>
                   ELSE /\ class_dist' = d
                        /\ runner' = [runner EXCEPT !.captured = TRUE]
                        /\ UNCHANGED exc
       \/ UNCHANGED <<raw_dist, class_dist, runner, exc>>
    /\ pc' = "run_exit"
    /\ UNCHANGED <<archive_tree, archive_reads,
                   archive_open, tempdirs, setup_py,
                   distribution, cfg, client, data, pre, stages, events,
                   release_data, proc, sysVars, docVars, descVars, propVars>>

\* leaving `with utils.ChangeDir(self.dirname)`, whether or not an exception
\* is in flight; run() has no other statement after the bracket
ModuleRunExit ==
    /\ pc = "run_exit"
    /\ cwd' = ChangeDir_exit(runner.change_dir)
    /\ runner' = [runner EXCEPT
          !.status = IF exc = "none" THEN "returned" ELSE "raised"]
    /\ pc' = "idle"
    /\ UNCHANGED <<archive_tree, archive_reads,
                   archive_open, tempdirs, setup_py, runs,
                   raw_dist, class_dist, distribution, cfg, client, data, pre,
                   stages, events, exc, release_data, proc, sys_argv, sys_path,
                   docVars, descVars, propVars>>

\* runner.results after run() returned
ModuleResults ==
    /\ pc = "idle"
    /\ runner.status = "returned"
    /\ runner.read.t = "absent"
    /\ runner' = [runner EXCEPT !.read = module_results(class_dist)]
    /\ UNCHANGED <<pipeVars, proc, sysVars, docVars, descVars, propVars>>

\* extract_dist.extract_dist.class_dist read by the caller after the run
\* returned, as metadata_extractors.py line 296 does
ReadClassDist ==
    /\ pc = "idle"
    /\ runner.status = "returned"
    /\ runner.slot_read.t = "absent"
    /\ runner' = [runner EXCEPT !.slot_read = class_dist]
    /\ UNCHANGED <<pipeVars, proc, sysVars, docVars, descVars, propVars>>

InProcessNext ==
    \/ ModuleRunEnter \/ ModuleRunPathInsert \/ ModuleRunSetArgv
    \/ ModuleRunModule \/ ModuleRunExit \/ ModuleResults \/ ReadClassDist

SpecInProcess == InProcessInit /\ [][InProcessNext]_vars

\* between two runs of the runner
RunEnded == pc = "idle" /\ runner.status \in {"returned", "raised"}

\* C11: after an in-process run the runner's results is the object the
\* command stored in the hand-off slot during that run; the working
\* directory, sys.argv and sys.path are back at their pre-run values; and
\* the slot read after a run that captured nothing holds no distribution.
C11_InProcessHandoffReset ==
    /\ RunEnded =>
          /\ cwd = runner.before.cwd
          /\ sys_argv = runner.before.sys_argv
          /\ sys_path = runner.before.sys_path
    /\ (RunEnded /\ runner.captured /\ runner.read.t # "absent") =>
          runner.read = class_dist
    /\ (RunEnded /\ ~runner.captured /\ runner.slot_read.t # "absent") =>
          runner.slot_read = PyNone

----------------------------------------------------------------------------
(* extract_dist.__init__ and extract_dist.run on arbitrary distributions *)

REQ_A == <<"a", ">", "=", "1">>
REQ_B == <<"b">>

\* what a descriptor may pass for a list-like keyword
ListValues ==
    { Absent, PyNone, PyList(<<>>), PyList(<<REQ_A, REQ_B>>),
      PyStr(REQ_A \o <<"\n">> \o REQ_B), PyStr(<<>>),
      PyTuple(<<REQ_A>>), PyInt(3) }

\* what a descriptor may pass for a free-text keyword
StrValues == { Absent, PyNone, PyStr(<<"d">>), PyInt(3), PyList(<<REQ_B>>) }

\* what a descriptor may pass as entry_points=
EntryPointValues ==
    { Absent, PyNone, PyDict(<<>>),
      PyDict(<<<<"console_scripts", PyList(<<REQ_B>>)>>>>),
      PyStr(<<"[", "c", "]">>), PyStr(<<>>) }

RawDists ==
    { [t |-> "Distribution",
       attrs |-> [a \in DistAttrs |->
                    IF a = "install_requires" THEN ir
                    ELSE IF a = "packages" THEN pk
                    ELSE IF a = "entry_points" THEN ep
                    ELSE IF a \in {"scripts", "test_suite"} THEN PyNone
                    ELSE Absent],
       metadata |-> [a \in MetaAttrs |->
                       IF a = "url" THEN u
                       ELSE IF a = "classifiers" THEN cl
                       ELSE PyNone]] :
      ir \in ListValues, pk \in {Absent, PyList(<<NAME>>), PyTuple(<<>>)},
      ep \in EntryPointValues, u \in StrValues,
      cl \in {PyNone, PyList(<<MIT_TROVE>>), PyTuple(<<MIT_TROVE>>)} }

DistInit ==
    /\ PipeIdle
    /\ doc_files = <<>> /\ doc_split = <<>>
    /\ long_desc = <<>> /\ desc_out = <<>>
    /\ runner = <<>> /\ proc = <<>>
    /\ sysIdle

\* setup() builds the Distribution from the descriptor's keywords
CommandSetup ==
    /\ pc = "idle"
    /\ \E d \in RawDists : raw_dist' = d
    /\ pc' = "cmd_new"
    /\ UNCHANGED <<archive_tree, archive_reads,
                   archive_open, tempdirs, setup_py, runs,
                   class_dist, distribution, cfg, client, data, pre, stages,
                   events, exc, release_data, docVars, descVars, runVars,
                   sysVars, propVars>>

\* extract_dist.__init__(dist): coerces the attributes of self.distribution
CommandInit ==
    /\ pc = "cmd_new"
    /\ LET d == extract_dist_init(raw_dist)
       IN  IF d.t = "raise"
           THEN /\ exc' = d.v
                /\ pc' = "cmd_raised"
                /\ UNCHANGED distribution
           ELSE /\ distribution' = d
                /\ pc' = "cmd_initialized"
                /\ UNCHANGED exc
    /\ UNCHANGED <<archive_tree, archive_reads,
                   archive_open, tempdirs, setup_py, runs,
                   raw_dist, class_dist, cfg, client, data, pre, stages,
                   events, release_data, docVars, descVars, runVars,
                   sysVars, propVars>>

\* extract_dist.run(): extract_dist.class_dist = self.distribution
CommandRun ==
    /\ pc = "cmd_initialized"
    /\ class_dist' = distribution
    /\ pc' = "cmd_done"
    /\ UNCHANGED <<archive_tree, archive_reads,
                   archive_open, tempdirs, setup_py, runs,
                   raw_dist, distribution, cfg, client, data, pre, stages,
                   events, exc, release_data, docVars, descVars, runVars,
                   sysVars, propVars>>

DistNext == CommandSetup \/ CommandInit \/ CommandRun

SpecDist == DistInit /\ [][DistNext]_vars

\* C10: after extract_dist.__init__ every captured field holds a typed
\* default and none is null: the list-like fields are lists, the free-text
\* fields are strings, and entry_points is not None.
C10_FieldsDefaulted ==
    (pc \in {"cmd_initialized", "cmd_done"}) =>
        /\ \A a \in ListAttrs \cup {"classifiers"} :
              distribution.attrs[a].t = "list"
        /\ \A a \in StrAttrs : distribution.attrs[a].t = "str"
        /\ distribution.attrs["entry_points"].t # "NoneType"

----------------------------------------------------------------------------
(* process_description and SetupPyMetadataExtractor.description            *)
(*                                                                         *)
(* A text is a sequence of tokens [k, n], n the number of characters:      *)
(*   "w"   a run of word characters          "d"  a run of # - = ~ `        *)
(*   "u"   a URL, scheme://host/path         "sp" a run of blanks           *)
(*   "nl"  one "\n"                                                         *)
(*   "img" a ".. image:: https://..." directive up to the end of its line  *)
(***************************************************************************)

W(n)   == [k |-> "w", n |-> n]
D(n)   == [k |-> "d", n |-> n]
U(n)   == [k |-> "u", n |-> n]
IMG(n) == [k |-> "img", n |-> n]
SP     == [k |-> "sp", n |-> 1]
NL     == [k |-> "nl", n |-> 1]

\* len(text)
RECURSIVE CharLen(_)
CharLen(text) ==
    IF text = <<>> THEN 0
    ELSE IF Len(text) = 1 THEN text[1].n
    ELSE LET h == Len(text) \div 2
         IN  CharLen(SubSeq(text, 1, h)) + CharLen(SubSeq(text, h + 1, Len(text)))

\* ''.join(pieces)
RECURSIVE Concat(_)
Concat(pieces) ==
    IF pieces = <<>> THEN <<>>
    ELSE IF Len(pieces) = 1 THEN pieces[1]
    ELSE LET h == Len(pieces) \div 2
         IN  Concat(SubSeq(pieces, 1, h)) \o Concat(SubSeq(pieces, h + 1, Len(pieces)))

\* '\n'.join(lines)
JoinWith(lines, sep) ==
    Concat([i \in 1..Len(lines) |->
               IF i < Len(lines) THEN lines[i] \o <<sep>> ELSE lines[i]])

\* line 107: re.sub('((\r*.. image::|:target:) https?|(:align:|:alt:))[^\n]*\n', '', .)
\* a directive goes with the rest of its line and the line break that ends
\* it; on a last line without a line break nothing matches
sub_image_tags(text) ==
    LET lines == split(text, NL)
        at(l) == FindChar([i \in 1..Len(l) |-> l[i].k], "img")
    IN  Concat([i \in 1..Len(lines) |->
                   IF i = Len(lines) THEN lines[i]
                   ELSE IF at(lines[i]) > 0
                        THEN SubSeq(lines[i], 1, at(lines[i]) - 1)
                        ELSE lines[i] \o <<NL>>])

SHORT_LINE == 8

\* line 105: re.sub('((\r?\n)|^).{0,8}((\r?\n)|$)', '', .) scanning the lines
\* from line i on.  lead says what precedes line i: "start" the start of the
\* text, "nl" a line break no match has consumed, "none" a line break the
\* previous match consumed.  A match must begin at a line break or at the
\* start, spans one whole line of at most 8 characters and takes the line
\* break that ends it.
RECURSIVE short_lines_from(_, _, _)
short_lines_from(lines, i, lead) ==
    LET N     == Len(lines)
        short(j) == CharLen(lines[j]) <= SHORT_LINE
        more(j, l) == IF j <= N THEN short_lines_from(lines, j, l) ELSE <<>>
    IN  IF lead = "start"
        THEN IF lines[1] = <<>> /\ N >= 2
             THEN \* the text starts with a line break
                  IF short(2) THEN more(3, "none") ELSE more(2, "none")
             ELSE IF short(1) THEN more(2, "none")
                  ELSE lines[1] \o more(2, "nl")
        ELSE IF lead = "nl"
        THEN IF short(i) THEN more(i + 1, "none")
             ELSE <<NL>> \o lines[i] \o more(i + 1, "nl")
        ELSE lines[i] \o more(i + 1, "nl")

sub_short_lines(text) == short_lines_from(split(text, NL), 1, "start")

\* line 103: re.sub('(#|-|=|~|`)*', '', .)
sub_delimiters(text) ==
    LET keep(t) == t.k # "d" IN SelectSeq(text, keep)

\* line 101: re.sub(r'\w+:\/{2}[\d\w-]+(\.[\d\w-]+)*(?:(?:\/[^\s/]*))*', '', .)
\* of a directive that is still there only ".. image:: " remains
sub_urls(text) ==
    Concat([i \in 1..Len(text) |->
               IF text[i].k = "u" THEN <<>>
               ELSE IF text[i].k = "img" THEN <<W(2), SP, W(7), SP>>
               ELSE <<text[i]>>])

IsSpace(t) == t.k \in {"sp", "nl"}

\* line 99: re.sub(r'\s+', ' ', .)
sub_whitespace(text) ==
    LET first(i) == IsSpace(text[i]) /\ (i = 1 \/ ~IsSpace(text[i - 1]))
    IN  Concat([i \in 1..Len(text) |->
                   IF ~IsSpace(text[i]) THEN <<text[i]>>
                   ELSE IF first(i) THEN <<SP>> ELSE <<>>])

WRAP_WIDTH == 80

\* TextWrapper._split: maximal runs of non-blank characters and of blanks
wrap_split(text) ==
    LET cls(i)   == IF IsSpace(text[i]) THEN "sp" ELSE "w"
        first(i) == i = 1 \/ cls(i) # cls(i - 1)
        last(i)  == CHOOSE j \in i..Len(text) :
                       /\ \A m \in i..j : cls(m) = cls(i)
                       /\ (j = Len(text) \/ cls(j + 1) # cls(i))
    IN  Concat([i \in 1..Len(text) |->
                   IF first(i)
                   THEN <<[k |-> cls(i),
                           n |-> CharLen(SubSeq(text, i, last(i)))]>>
                   ELSE <<>>])

\* the inner loop of TextWrapper._wrap_chunks: chunks that fit on the line
RECURSIVE wrap_fill(_, _, _)
wrap_fill(chunks, cur_line, cur_len) ==
    IF chunks # <<>> /\ cur_len + chunks[1].n <= WRAP_WIDTH
    THEN wrap_fill(Tail(chunks), Append(cur_line, chunks[1]),
                   cur_len + chunks[1].n)
    ELSE [line |-> cur_line, len |-> cur_len, rest |-> chunks]

\* TextWrapper._wrap_chunks with the defaults of textwrap.wrap(text, 80);
\* nlines is the number of lines made so far
RECURSIVE wrap_chunks(_, _)
wrap_chunks(chunks, nlines) ==
    IF chunks = <<>> THEN <<>>
    ELSE
    LET c0    == IF chunks[1].k = "sp" /\ nlines > 0 THEN Tail(chunks)
                 ELSE chunks
        f     == wrap_fill(c0, <<>>, 0)
        long  == f.rest # <<>> /\ f.rest[1].n > WRAP_WIDTH
        space_left == WRAP_WIDTH - f.len
        line1 == IF long /\ space_left > 0
                 THEN Append(f.line, [k |-> f.rest[1].k, n |-> space_left])
                 ELSE f.line
        rest1 == IF long /\ space_left > 0
                 THEN <<[k |-> f.rest[1].k, n |-> f.rest[1].n - space_left]>>
                      \o Tail(f.rest)
                 ELSE f.rest
        line2 == IF line1 # <<>> /\ line1[Len(line1)].k = "sp"
                 THEN SubSeq(line1, 1, Len(line1) - 1) ELSE line1
    IN  IF line2 # <<>> THEN <<line2>> \o wrap_chunks(rest1, nlines + 1)
        ELSE wrap_chunks(rest1, nlines)

\* textwrap.wrap(text, 80)
textwrap_wrap(text) == wrap_chunks(wrap_split(text), 0)

\* process_description(description_fce).inner, lines 97-109
process_description(description) ==
    LET clear_description ==
            sub_whitespace(sub_urls(sub_delimiters(sub_short_lines(
                sub_image_tags(description)))))
    IN  JoinWith(textwrap_wrap(clear_description), SP)

\* text.find('\n', start): the index of the first line break at character
\* offset start or later, 0 when there is none
find_nl(text, start) ==
    LET hit(i) == text[i].k = "nl" /\ CharLen(SubSeq(text, 1, i - 1)) >= start
    IN  IF \E i \in 1..Len(text) : hit(i)
        THEN CHOOSE i \in 1..Len(text) : hit(i) /\ \A j \in 1..(i - 1) : ~hit(j)
        ELSE 0

DOTS == [k |-> "dots", n |-> 3]

\* the offset given to find in line 373
DESCRIPTION_CUT == 80 * 8

\* SetupPyMetadataExtractor.description, lines 370-377
description(long_description_raw) ==
    LET long_description == process_description(long_description_raw)
        cut == find_nl(long_description, DESCRIPTION_CUT)
    IN  IF cut > 0
        THEN SubSeq(long_description, 1, cut - 1) \o <<NL, DOTS>>
        ELSE long_description

\* long descriptions: up to MaxHeader heading lines, then up to MaxLines
\* full lines of prose, with or without a final line break
LongLine == <<W(7), SP, W(7), SP, W(7), SP, W(7), SP, W(7), SP, W(7), SP,
              W(7), SP, W(7), SP, W(7)>>

HeaderLines ==
    { <<W(4)>>,                  \* a title
      <<D(20)>>,                 \* its underline
      <<>>,                      \* a blank line
      <<IMG(40)>>,               \* a badge
      <<W(3), SP, U(30)>>,       \* "see http://..."
      <<W(9), SP, SP, W(5)>> }   \* a longer heading

MaxHeader == 2
MaxLines  == 12

LongDescriptions ==
    { JoinWith(h \o [i \in 1..n |-> LongLine], NL)
          \o (IF trailing THEN <<NL>> ELSE <<>>) :
      h \in SeqsUpTo(HeaderLines, MaxHeader), n \in 0..MaxLines,
      trailing \in BOOLEAN }

NoDesc == [done |-> FALSE, long_description |-> <<>>, description |-> <<>>]

DescInit ==
    /\ PipeIdle
    /\ doc_files = <<>> /\ doc_split = <<>>
    /\ long_desc \in LongDescriptions
    /\ desc_out = NoDesc
    /\ runner = <<>> /\ proc = <<>>
    /\ sysIdle

\* reading extractor.description (and extractor.long_description)
ReadDescription ==
    /\ ~desc_out.done
    /\ desc_out' = [done |-> TRUE,
                    long_description |-> process_description(long_desc),
                    description |-> description(long_desc)]
    /\ UNCHANGED <<long_desc, pipeVars, docVars, runVars, sysVars, propVars>>

DescNext == ReadDescription

SpecDesc == DescInit /\ [][DescNext]_vars

EndsWithMarker(text) ==
    /\ Len(text) >= 2
    /\ text[Len(text) - 1] = NL
    /\ text[Len(text)] = DOTS

\* a long description of several lines whose text, raw and processed, runs
\* past the threshold, with a line break beyond the threshold
LongMultiLine ==
    /\ find_nl(long_desc, DESCRIPTION_CUT) > 0
    /\ find_nl(long_desc, DESCRIPTION_CUT) < Len(long_desc)
    /\ CharLen(desc_out.long_description) > DESCRIPTION_CUT + WRAP_WIDTH

\* C9: the description is the processed text cut at its first line break at
\* or after the threshold with the marker appended, or the whole processed
\* text when it has no such line break; a sufficiently long multi-line
\* long_description yields a truncated description ending in the marker.
C9_DescriptionTruncated ==
    desc_out.done =>
        LET text == desc_out.long_description
            cut  == find_nl(text, DESCRIPTION_CUT)
        IN  /\ cut > 0 => desc_out.description
                              = SubSeq(text, 1, cut - 1) \o <<NL, DOTS>>
            /\ cut = 0 => desc_out.description = text
            /\ LongMultiLine => EndsWithMarker(desc_out.description)

----------------------------------------------------------------------------
(* reading the derived properties of Strategy A, in any order *)

PYTHON2_DEVEL == <<[kind |-> "BuildRequires", constraint |-> <<>>],
                   <<"p", "y", "t", "h", "o", "n", "2", "-", "d", "e", "v",
                     "e", "l">>>>
PYTHON_SPHINX == <<[kind |-> "BuildRequires", constraint |-> <<>>],
                   <<"p", "y", "t", "h", "o", "n", "-", "s", "p", "h", "i",
                     "n", "x">>>>

\* data_from_archive of Strategy A in full, lines 242-274 and 443-458, for
\* the fields derived from the distribution: the dictionary returned and the
\* distribution afterwards.  sphinx_dir is what self.sphinx_dir finds.
archive_data(dist, sphinx_dir) ==
    LET rd   == runtime_deps(dist)
        d    == rd.dist
        base == data_from_archive(d)
        bd   == <<PYTHON2_DEVEL>> \o build_deps(d).v
    IN  [dist  |-> d,
         value |->
           [runtime_deps   |-> rd.value,
            build_deps     |-> PyList(IF sphinx_dir
                                      THEN Append(bd, PYTHON_SPHINX) ELSE bd),
            py_modules     |-> py_modules(d),
            scripts        |-> scripts(d),
            home_page      |-> base.home_page,
            summary        |-> base.summary,
            license        |-> base.license,
            has_test_suite |-> has_test_suite(d),
            has_packages   |-> base.has_packages,
            packages       |-> base.packages,
            sphinx_dir     |-> PyBool(sphinx_dir)]]

PropNames == {"runtime_deps", "build_deps", "packages", "py_modules",
              "scripts", "has_test_suite", "data_from_archive"}

MaxReads == 3

SCRIPT_A == <<"s", " ", "=", " ", "m", ":", "f">>
SCRIPT_B == <<"b", "i", "n", "/", "t">>

\* distributions a descriptor run may have captured
CapturedDists ==
    { extract_dist_init(
        [t |-> "Distribution",
         attrs |-> [a \in DistAttrs |->
                      IF a = "install_requires" THEN ir
                      ELSE IF a = "entry_points" THEN ep
                      ELSE IF a = "tests_require" THEN tr
                      ELSE IF a = "setup_requires" THEN PyList(<<REQ_A>>)
                      ELSE IF a = "packages" THEN PyList(<<NAME>>)
                      ELSE IF a = "scripts" THEN PyList(<<SCRIPT_B>>)
                      ELSE IF a = "test_suite" THEN PyNone
                      ELSE Absent],
         metadata |-> [a \in MetaAttrs |-> PyNone]]) :
      ir \in {PyList(<<>>), PyList(<<REQ_A, REQ_B>>),
              PyList(<<REQ_B, SETUPTOOLS>>)},
      ep \in {PyNone, PyDict(<<>>),
              PyDict(<<<<"console_scripts", PyList(<<SCRIPT_A>>)>>>>)},
      tr \in {Absent, PyList(<<REQ_B>>)} }

NoReads(dist, sphinx_dir) ==
    [captured |-> dist, sphinx_dir |-> sphinx_dir, n |-> 0,
     last |-> [p \in PropNames |-> Absent], differs |-> {}]

\* an extractor whose construction has ended, with its archive
PropsInit ==
    /\ PipeIdle
    /\ doc_files = <<>> /\ doc_split = <<>>
    /\ long_desc = <<>> /\ desc_out = <<>>
    /\ runner = <<>> /\ proc = <<>>
    /\ cwd = HOME
    /\ sys_argv = <<ARGV0>> \o CLI_ARGS
    /\ sys_path = <<SITE_PATH>>
    /\ \E d \in CapturedDists, sphinx_dir \in BOOLEAN :
         props = NoReads(d, sphinx_dir)

\* the end of construction: extract_dist.run has stored the distribution in
\* class_dist and line 296 assigns that same object to self.distribution
PropsAssign ==
    /\ pc = "idle"
    /\ class_dist' = props.captured
    /\ distribution' = props.captured
    /\ pc' = "constructed"
    /\ UNCHANGED <<archive_tree, archive_reads,
                   archive_open, tempdirs, setup_py, runs,
                   raw_dist, cfg, client, data, pre, stages, events, exc,
                   release_data, docVars, descVars, runVars, sysVars,
                   propVars>>

\* one read of property p that returned value and left the distribution as
\* dist
ReadProperty(p, dist, value) ==
    /\ pc = "constructed"
    /\ props.n < MaxReads
    /\ distribution' = dist
    /\ class_dist' = dist
    /\ props' = [props EXCEPT
          !.n = props.n + 1,
          !.last[p] = value,
          !.differs = IF props.last[p].t # "absent" /\ props.last[p] # value
                      THEN props.differs \cup {p} ELSE props.differs]
    /\ UNCHANGED <<pc, archive_tree, archive_reads,
                   archive_open, tempdirs, setup_py, runs,
                   raw_dist, cfg, client, data, pre, stages, events, exc,
                   release_data, docVars, descVars, runVars, sysVars>>

ReadRuntimeDeps ==
    LET r == runtime_deps(distribution)
    IN  ReadProperty("runtime_deps", r.dist, r.value)

ReadBuildDeps ==
    ReadProperty("build_deps", distribution, build_deps(distribution))

ReadPackages ==
    ReadProperty("packages", distribution, packages(distribution))

ReadPyModules ==
    ReadProperty("py_modules", distribution, py_modules(distribution))

ReadScripts ==
    ReadProperty("scripts", distribution, scripts(distribution))

ReadHasTestSuite ==
    ReadProperty("has_test_suite", distribution, has_test_suite(distribution))

ReadDataFromArchive ==
    LET r == archive_data(distribution, props.sphinx_dir)
    IN  ReadProperty("data_from_archive", r.dist, PyDict(r.value))

PropsNext ==
    \/ PropsAssign
    \/ ReadRuntimeDeps \/ ReadBuildDeps \/ ReadPackages \/ ReadPyModules
    \/ ReadScripts \/ ReadHasTestSuite \/ ReadDataFromArchive

SpecProps == PropsInit /\ [][PropsNext]_vars

\* C12: reading the derived properties of Strategy A, any number of times
\* in any order, leaves every field of the captured distribution as the
\* sandbox run left it, and repeated reads of one property return equal
\* values.
C12_ResultImmutable ==
    pc = "constructed" =>
        /\ distribution = props.captured
        /\ props.differs = {}

----------------------------------------------------------------------------
(* Strategy B: WheelMetadataExtractor under the inherited extract_data *)

\* the archive members json_metadata and archive.record are read from
WheelManifestPool ==
    { [f \in {"summary"} |-> PyStr(<<"w">>)],
      [f \in {"summary", "license"} |-> PyStr(<<"w">>)],
      [f \in {"classifiers"} |-> PyList(<<MIT_TROVE>>)] }

WheelRecordPool ==
    { [f \in {"modules"} |-> PyList(<<NAME>>)],
      [f \in {"scripts"} |-> PyList(<<>>)] }

\* data_from_archive, lines 242-274, over the properties of lines 464-543:
\* the fields the record keeps here
wheel_data_from_archive(manifest, record) ==
    [home_page  |-> PyNone,
     summary    |-> dict_get(manifest, "summary", PyNone),
     license    |-> dict_get(manifest, "license", PyNone),
     py_modules |-> dict_get(record, "modules", PyNone)]

\* the archive methods behind data_from_archive of Strategy B
WheelArchiveOps == {"json_wheel_metadata", "record", "wheel_description",
                    "has_file_with_suffix"}

\* WheelMetadataExtractor(...): LocalMetadataExtractor.__init__ only
WheelInit ==
    /\ pc = "wheel_new"
    /\ archive_reads = {}
    /\ archive_tree = EmptyTree
    /\ archive_open = FALSE
    /\ tempdirs = <<>>
    /\ setup_py = NoPath
    /\ runs = 0
    /\ raw_dist = PyNone
    /\ class_dist = PyNone
    /\ distribution = Absent
    /\ cfg \in [venv : BOOLEAN, virtualenv : BOOLEAN]
    /\ client = "unset"
    /\ data = NoData
    /\ pre = NoData
    /\ stages = <<>>
    /\ events = {}
    /\ exc = "none"
    /\ release_data = <<>>
    /\ otherIdle

\* extractor.extract_data(client) on a wheel extractor
WheelExtractDataCall ==
    /\ pc = "wheel_new"
    /\ \E c \in {"None", "client"} : client' = c
    /\ pc' = "wheel_base_create"
    /\ UNCHANGED <<archive_tree, archive_open, archive_reads, tempdirs,
                   setup_py, runs, raw_dist, class_dist, distribution, cfg,
                   data, pre, stages, events, exc, release_data,
                   docVars, descVars, runVars, sysVars, propVars>>

\* data = PackageData(...)
WheelBaseCreate ==
    /\ pc = "wheel_base_create"
    /\ data' = PackageData(NAME)
    /\ pc' = "wheel_base_open"
    /\ UNCHANGED <<archive_tree, archive_open, archive_reads, tempdirs,
                   setup_py, runs, raw_dist, class_dist, distribution, cfg,
                   client, pre, stages, events, exc, release_data,
                   docVars, descVars, runVars, sysVars, propVars>>

\* with self.archive:  (opening an unreadable archive raises)
WheelOpenArchive ==
    /\ pc = "wheel_base_open"
    /\ \E ok \in BOOLEAN :
         IF ok
         THEN /\ archive_open' = Archive_enter
              /\ pc' = "wheel_set_from"
              /\ UNCHANGED <<exc, events>>
         ELSE /\ exc' = "ArchiveError"
              /\ events' = events \cup {"archive_error"}
              /\ pc' = "raised"
              /\ UNCHANGED archive_open
    /\ UNCHANGED <<archive_tree, archive_reads, tempdirs, setup_py, runs,
                   raw_dist, class_dist, distribution, cfg, client, data, pre,
                   stages, release_data,
                   docVars, descVars, runVars, sysVars, propVars>>

\* data.set_from(self.data_from_archive): the manifest is missing and the
\* first property raises, or every property is read
WheelSetFrom ==
    /\ pc = "wheel_set_from"
    /\ \/ /\ exc' = "MemberNotFoundError"
          /\ events' = events \cup {"manifest_missing"}
          /\ archive_reads' = archive_read(archive_reads,
                                  {"json_wheel_metadata"}, archive_open)
          /\ UNCHANGED data
       \/ \E m \in WheelManifestPool, r \in WheelRecordPool :
            /\ data' = set_from(data, wheel_data_from_archive(m, r), FALSE)
            /\ archive_reads' = archive_read(archive_reads, WheelArchiveOps,
                                             archive_open)
            /\ UNCHANGED <<exc, events>>
    /\ pc' = "wheel_base_close"
    /\ UNCHANGED <<archive_tree, archive_open, tempdirs, setup_py, runs,
                   raw_dist, class_dist, distribution, cfg, client, pre,
                   stages, release_data,
                   docVars, descVars, runVars, sysVars, propVars>>

\* leaving `with self.archive`
WheelCloseArchive ==
    /\ pc = "wheel_base_close"
    /\ archive_open' = with_exit(archive_open, exc)
    /\ pc' = IF exc = "none" THEN "wheel_base_fixups" ELSE "raised"
    /\ UNCHANGED <<archive_tree, archive_reads, tempdirs, setup_py, runs,
                   raw_dist, class_dist, distribution, cfg, client, data, pre,
                   stages, events, exc, release_data,
                   docVars, descVars, runVars, sysVars, propVars>>

\* lines 225-232: the package fallback, then return data to the overlays
WheelFixups ==
    /\ pc = "wheel_base_fixups"
    /\ data' = package_fallback(data)
    /\ stages' = Append(stages, [who |-> "base", wrote |-> <<>>])
    /\ pc' = AfterStage("base")
    /\ UNCHANGED <<archive_tree, archive_open, archive_reads, tempdirs,
                   setup_py, runs, raw_dist, class_dist, distribution, cfg,
                   client, pre, events, exc, release_data,
                   docVars, descVars, runVars, sysVars, propVars>>

WheelNext ==
    \/ WheelExtractDataCall \/ WheelBaseCreate \/ WheelOpenArchive
    \/ WheelSetFrom \/ WheelCloseArchive \/ WheelFixups

\* both strategies: construction of Strategy A, and extract_data of either
ArchiveInit == PipeInit \/ WheelInit

ArchiveNext == PipeNext \/ WheelNext

SpecArchive == ArchiveInit /\ [][ArchiveNext]_vars

\* control is inside a `with self.archive` bracket
InBracket ==
    pc \in {"init_extract", "init_glob", "init_run", "init_assign",
            "init_exit", "base_set_from", "base_close", "wheel_set_from",
            "wheel_base_close"}

\* control is inside one of the two overlay passes
InOverlay ==
    pc \in {"venv_check", "venv_try", "venv_finally", "pypi_release_data",
            "pypi_get_url"}

\* C13: every archive read happens while the archive is open; outside the
\* brackets of construction and extract_data, after a normal or an
\* exceptional exit alike, the archive is closed; and the overlay passes
\* run only with the archive closed.
C13_ArchiveScopedLifetime ==
    /\ \A r \in archive_reads : r.open
    /\ ~InBracket => ~archive_open
    /\ InOverlay => ~archive_open

\* C13 witness: an overlay pass under way after extract_all and every archive
\* read of Strategy A's data_from_archive, the archive closed
C13_Witness ==
    /\ InOverlay
    /\ {r.op : r \in archive_reads} = SetupPyArchiveOps \cup {"extract_all"}
    /\ ~archive_open

====
